---- MODULE Spec2Model ----
(***************************************************************************)
(* Model of the Azure Storage Queue cost model (StorageQueue) and of the   *)
(* usage-file loader (internal/usage/usage_file.go).                       *)
(*                                                                         *)
(* Go strings whose characters the code inspects or rewrites are modelled  *)
(* as sequences of one-character strings, so that strings.ToUpper,         *)
(* strings.HasPrefix, fmt.Sprintf and semver parsing are computed, not     *)
(* assumed.  A Go pointer that may be nil is modelled as a sequence of     *)
(* length 0 (nil) or 1 (pointing at its element).                          *)
(***************************************************************************)
EXTENDS Integers, Sequences, FiniteSets

VARIABLES
    r,          \* the StorageQueue instance: Address, Region, AccountReplicationType
    calls,      \* history of the methods called on r, oldest first
    returned,   \* the value returned by each BuildResource call, oldest first
    log,        \* the warnings written through logrus, oldest first
    fs,         \* the usage file on disk, as LoadFromFile finds it
    usageFile,  \* the path argument of the last LoadFromFile call
    loaded,     \* the (map, error, steps) outcome of the last LoadFromFile call
    loads       \* number of LoadFromFile calls made

vars == <<r, calls, returned, log, fs, usageFile, loaded, loads>>

queueVars == <<r, calls, returned, log>>
usageVars == <<fs, usageFile, loaded, loads>>

(* ------------------------------ bounds -------------------------------- *)

\* Longest history of PopulateUsage / BuildResource calls on one instance.
MaxCalls == 3

\* Longest version string enumerated exhaustively over VersionAlphabet.
MaxVersionLen == 3

\* Number of LoadFromFile calls explored.
MaxLoads == 2

(* ------------------------- pointers and strings ----------------------- *)

Nil == <<>>

Ptr(x) == <<x>>

IsNil(p) == p = <<>>

Deref(p) == p[1]

LowerLetters ==
    << "a","b","c","d","e","f","g","h","i","j","k","l","m",
       "n","o","p","q","r","s","t","u","v","w","x","y","z" >>

UpperLetters ==
    << "A","B","C","D","E","F","G","H","I","J","K","L","M",
       "N","O","P","Q","R","S","T","U","V","W","X","Y","Z" >>

\* Characters outside ASCII are written by code point, "U+017F".  These are
\* the ones the inputs use that unicode.ToUpper changes: long s and dotless i,
\* the two whose upper case is an ASCII letter, and e-acute.
UnicodeLower == << "U+017F", "U+0131", "U+00E9" >>

UnicodeUpper == << "S", "I", "U+00C9" >>

CaseFrom == LowerLetters \o UnicodeLower

CaseTo == UpperLetters \o UnicodeUpper

\* unicode.ToUpper on one character.
ToUpperChar(c) ==
    IF \E i \in DOMAIN CaseFrom : CaseFrom[i] = c
    THEN CaseTo[CHOOSE i \in DOMAIN CaseFrom : CaseFrom[i] = c]
    ELSE c

\* Every character that differs from c at most in case: c and the characters
\* whose upper case is c (used to enumerate spellings).
CaseForms(c) == {c} \cup { CaseFrom[i] : i \in { k \in DOMAIN CaseTo : CaseTo[k] = c } }

\* strings.ToUpper
ToUpper(s) == [i \in DOMAIN s |-> ToUpperChar(s[i])]

\* strings.HasPrefix
HasPrefix(s, p) == Len(s) >= Len(p) /\ SubSeq(s, 1, Len(p)) = p

\* contains(list, x): membership in a slice of strings
contains(list, x) == \E i \in DOMAIN list : list[i] = x

LRS == <<"L","R","S">>
ZRS == <<"Z","R","S">>
GRS == <<"G","R","S">>
RAGRS == <<"R","A","-","G","R","S">>
GZRS == <<"G","Z","R","S">>
RAGZRS == <<"R","A","-","G","Z","R","S">>

StandardSp == <<"S","t","a","n","d","a","r","d"," ">>
SpDataStored == <<" ","D","a","t","a"," ","S","t","o","r","e","d">>
QueuesV2 == <<"Q","u","e","u","e","s"," ","v","2">>
Class1OperationsRe ==
    <<"C","l","a","s","s"," ","1"," ","O","p","e","r","a","t","i","o","n","s","$">>
Class2OperationsRe ==
    <<"C","l","a","s","s"," ","2"," ","O","p","e","r","a","t","i","o","n","s","$">>
StorageBandwidth ==
    <<"S","t","o","r","a","g","e"," ","-"," ","B","a","n","d","w","i","d","t","h">>
GeoReplicationV2 ==
    <<"G","e","o","-","R","e","p","l","i","c","a","t","i","o","n"," ","v","2">>
GeoReplicationV2DataTransfer ==
    GeoReplicationV2 \o <<" ","D","a","t","a"," ","T","r","a","n","s","f","e","r">>

(* ----------------------------- StorageQueue --------------------------- *)

\* schema.AttributeFilter literals
FilterValue(key, value) == [Key |-> key, Value |-> Ptr(value), ValueRegex |-> Nil]

FilterRegex(key, re) == [Key |-> key, Value |-> Nil, ValueRegex |-> Ptr(re)]

\* The parts every cost component of this resource shares.
Component(q, name, unit, filters) ==
    [ Name            |-> name,
      Unit            |-> unit,
      UnitMultiplier  |-> 1,
      MonthlyQuantity |-> Nil,
      ProductFilter   |-> [ VendorName       |-> Ptr("azure"),
                            Region           |-> Ptr(q.Region),
                            Service          |-> Ptr("Storage"),
                            ProductFamily    |-> Ptr("Storage"),
                            AttributeFilters |-> filters ],
      PriceFilter     |-> [ PurchaseOption   |-> Ptr("Consumption"),
                            StartUsageAmount |-> Ptr("0") ] ]

UsageSchema(q) == <<>>

isReplicationTypeSupported_CaseSensitive(q) ==
    contains(<<LRS, ZRS, GRS, RAGRS, GZRS, RAGZRS>>, q.AccountReplicationType)

isReplicationTypeSupported(q) ==
    contains(<<LRS, ZRS, GRS, RAGRS, GZRS, RAGZRS>>, ToUpper(q.AccountReplicationType))

dataStorageCostComponent_RawSku(q) ==
    Component(q, "Capacity", "GB",
        << FilterValue("productName", QueuesV2),
           FilterValue("skuName", StandardSp \o q.AccountReplicationType),
           FilterValue("meterName", ToUpper(q.AccountReplicationType) \o SpDataStored) >>)

dataStorageCostComponent(q) ==
    Component(q, "Capacity", "GB",
        << FilterValue("productName", QueuesV2),
           FilterValue("skuName", StandardSp \o ToUpper(q.AccountReplicationType)),
           FilterValue("meterName", ToUpper(q.AccountReplicationType) \o SpDataStored) >>)

Class1Component(q) ==
    Component(q, "Class 1 operations", "10k operations",
        << FilterValue("productName", QueuesV2),
           FilterValue("skuName", StandardSp \o ToUpper(q.AccountReplicationType)),
           FilterRegex("meterName", Class1OperationsRe) >>)

Class2Component(q) ==
    Component(q, "Class 2 operations", "10k operations",
        << FilterValue("productName", QueuesV2),
           FilterValue("skuName", StandardSp \o ToUpper(q.AccountReplicationType)),
           FilterRegex("meterName", Class2OperationsRe) >>)

operationsCostComponents_CaseSensitive(q) ==
    (IF ~contains(<<GZRS, RAGZRS>>, q.AccountReplicationType)
     THEN <<Class1Component(q)>> ELSE <<>>)
    \o <<Class2Component(q)>>

operationsCostComponents(q) ==
    (IF ~contains(<<GZRS, RAGZRS>>, ToUpper(q.AccountReplicationType))
     THEN <<Class1Component(q)>> ELSE <<>>)
    \o <<Class2Component(q)>>

GeoComponent(q) ==
    Component(q, "Geo-replication data transfer", "GB",
        << FilterValue("productName", StorageBandwidth),
           FilterValue("skuName", GeoReplicationV2),
           FilterValue("meterName", GeoReplicationV2DataTransfer) >>)

geoReplicationDataTransferCostComponents_GrsLocal(q) ==
    IF contains(<<LRS, ZRS, GRS>>, ToUpper(q.AccountReplicationType))
    THEN <<>>
    ELSE <<GeoComponent(q)>>

geoReplicationDataTransferCostComponents_BothSet(q) ==
    IF contains(<<LRS, ZRS>>, ToUpper(q.AccountReplicationType))
    THEN <<>>
    ELSE << [GeoComponent(q) EXCEPT !.ProductFilter.AttributeFilters[3].ValueRegex =
                                        Ptr(GeoReplicationV2DataTransfer)] >>

geoReplicationDataTransferCostComponents(q) ==
    IF contains(<<LRS, ZRS>>, ToUpper(q.AccountReplicationType))
    THEN <<>>
    ELSE <<GeoComponent(q)>>

\* The slice BuildResource assembles for a supported instance.
costComponents_GeoFirst(q) ==
    <<dataStorageCostComponent(q)>>
        \o geoReplicationDataTransferCostComponents(q)
        \o operationsCostComponents(q)

costComponents(q) ==
    <<dataStorageCostComponent(q)>>
        \o operationsCostComponents(q)
        \o geoReplicationDataTransferCostComponents(q)

\* The warning BuildResource logs for an unsupported instance.
SkipWarning(q) ==
    [ level   |-> "warning",
      message |-> <<"Skipping resource ", q.Address,
                    ". Storage queues don't support ", q.AccountReplicationType,
                    " redundancy">> ]

\* BuildResource as a function of the instance: the pointer it returns and
\* the warnings it logs.
BuildResource(q) ==
    IF ~isReplicationTypeSupported(q)
    THEN [ resource |-> Nil, warnings |-> <<SkipWarning(q)>> ]
    ELSE [ resource |-> Ptr([ Name           |-> q.Address,
                              UsageSchema    |-> UsageSchema(q),
                              CostComponents |-> costComponents(q) ]),
           warnings |-> <<>> ]

\* Struct fields of StorageQueue carrying an infracost_usage tag, mapped to
\* the usage key named by the tag.  The struct declares none.
UsageTags == <<>>

\* resources.PopulateArgsWithUsage: every tagged field whose key is present
\* in the usage data takes the value found there; nothing else changes.
PopulateArgsWithUsage(q, u) ==
    [f \in DOMAIN q |->
        IF /\ ~IsNil(u)
           /\ f \in DOMAIN UsageTags
           /\ UsageTags[f] \in DOMAIN Deref(u).Attributes
        THEN Deref(u).Attributes[UsageTags[f]]
        ELSE q[f]]

PopulateUsage(q, u) == PopulateArgsWithUsage(q, u)

(* ------------------- golang.org/x/mod/semver.Compare ------------------ *)

Digits == <<"0","1","2","3","4","5","6","7","8","9">>

IsDigit(c) == \E i \in DOMAIN Digits : Digits[i] = c

\* The characters of a semver identifier in ASCII order: '-' < 0-9 < A-Z < a-z.
IdentChars == <<"-">> \o Digits \o UpperLetters \o LowerLetters

isIdentChar(c) == \E i \in DOMAIN IdentChars : IdentChars[i] = c

Rank(c) == CHOOSE i \in DOMAIN IdentChars : IdentChars[i] = c

Drop(s, n) == SubSeq(s, n + 1, Len(s))

RECURSIVE DigitRun(_)
\* Number of leading decimal digits of v.
DigitRun(v) ==
    IF v # <<>> /\ IsDigit(v[1]) THEN 1 + DigitRun(Tail(v)) ELSE 0

parseInt(v) ==
    LET i == DigitRun(v) IN
    IF i = 0 \/ (v[1] = "0" /\ i # 1)
    THEN [ok |-> FALSE, t |-> <<>>, rest |-> <<>>]
    ELSE [ok |-> TRUE, t |-> SubSeq(v, 1, i), rest |-> Drop(v, i)]

\* isBadNum: all digits, longer than one character, with a leading zero.
isBadNum(v) == DigitRun(v) = Len(v) /\ Len(v) > 1 /\ v[1] = "0"

\* isNum: all digits (the empty string included).
isNum(v) == DigitRun(v) = Len(v)

RECURSIVE IndexOf(_, _)
\* Position of the first c in v, or Len(v) + 1 when there is none.
IndexOf(v, c) ==
    IF v = <<>> \/ v[1] = c THEN 1 ELSE 1 + IndexOf(Tail(v), c)

RECURSIVE IdentsOK(_, _)
\* v is a dot-separated list of non-empty identifiers over [0-9A-Za-z-];
\* with noBadNum, none of them is a number with a leading zero.
IdentsOK(v, noBadNum) ==
    LET i     == IndexOf(v, ".")
        ident == SubSeq(v, 1, i - 1)
    IN /\ ident # <<>>
       /\ \A k \in DOMAIN ident : isIdentChar(ident[k])
       /\ noBadNum => ~isBadNum(ident)
       /\ i > Len(v) \/ IdentsOK(Drop(v, i), noBadNum)

parsePrerelease(v) ==
    LET i == IndexOf(v, "+") IN
    IF v = <<>> \/ v[1] # "-" \/ ~IdentsOK(SubSeq(v, 2, i - 1), TRUE)
    THEN [ok |-> FALSE, t |-> <<>>, rest |-> <<>>]
    ELSE [ok |-> TRUE, t |-> SubSeq(v, 1, i - 1), rest |-> Drop(v, i - 1)]

parseBuild(v) ==
    IF v = <<>> \/ v[1] # "+" \/ ~IdentsOK(Tail(v), FALSE)
    THEN [ok |-> FALSE, t |-> <<>>, rest |-> <<>>]
    ELSE [ok |-> TRUE, t |-> v, rest |-> <<>>]

Invalid == [ok |-> FALSE, major |-> <<>>, minor |-> <<>>, patch |-> <<>>, prerelease |-> <<>>]

Parsed(major, minor, patch, prerelease) ==
    [ok |-> TRUE, major |-> major, minor |-> minor, patch |-> patch, prerelease |-> prerelease]

\* After the patch number: an optional prerelease, an optional build, nothing else.
parseTail(major, minor, patch, v) ==
    LET pre   == IF v # <<>> /\ v[1] = "-" THEN parsePrerelease(v)
                 ELSE [ok |-> TRUE, t |-> <<>>, rest |-> v]
        build == IF pre.ok /\ pre.rest # <<>> /\ pre.rest[1] = "+" THEN parseBuild(pre.rest)
                 ELSE [ok |-> TRUE, t |-> <<>>, rest |-> pre.rest]
    IN IF pre.ok /\ build.ok /\ build.rest = <<>>
       THEN Parsed(major, minor, patch, pre.t)
       ELSE Invalid

parse(v) ==
    IF v = <<>> \/ v[1] # "v" THEN Invalid
    ELSE LET ma == parseInt(Tail(v)) IN
         IF ~ma.ok THEN Invalid
         ELSE IF ma.rest = <<>> THEN Parsed(ma.t, <<"0">>, <<"0">>, <<>>)
         ELSE IF ma.rest[1] # "." THEN Invalid
         ELSE LET mi == parseInt(Tail(ma.rest)) IN
              IF ~mi.ok THEN Invalid
              ELSE IF mi.rest = <<>> THEN Parsed(ma.t, mi.t, <<"0">>, <<>>)
              ELSE IF mi.rest[1] # "." THEN Invalid
              ELSE LET pa == parseInt(Tail(mi.rest)) IN
                   IF ~pa.ok THEN Invalid
                   ELSE parseTail(ma.t, mi.t, pa.t, pa.rest)

RECURSIVE StrLess(_, _)
\* x < y on Go strings over IdentChars (byte-wise lexicographic order).
StrLess(x, y) ==
    IF y = <<>> THEN FALSE
    ELSE IF x = <<>> THEN TRUE
    ELSE IF x[1] # y[1] THEN Rank(x[1]) < Rank(y[1])
    ELSE StrLess(Tail(x), Tail(y))

compareInt(x, y) ==
    IF x = y THEN 0
    ELSE IF Len(x) < Len(y) THEN -1
    ELSE IF Len(x) > Len(y) THEN 1
    ELSE IF StrLess(x, y) THEN -1 ELSE 1

RECURSIVE comparePrereleaseLoop(_, _)
\* The identifier-by-identifier loop; x and y still carry their leading - or .
comparePrereleaseLoop(x, y) ==
    IF x = <<>> \/ y = <<>>
    THEN (IF x = <<>> THEN -1 ELSE 1)
    ELSE LET x1 == Tail(x)
             y1 == Tail(y)
             ix == IndexOf(x1, ".")
             iy == IndexOf(y1, ".")
             dx == SubSeq(x1, 1, ix - 1)
             dy == SubSeq(y1, 1, iy - 1)
         IN IF dx = dy THEN comparePrereleaseLoop(Drop(x1, ix - 1), Drop(y1, iy - 1))
            ELSE IF isNum(dx) # isNum(dy) THEN (IF isNum(dx) THEN -1 ELSE 1)
            ELSE IF isNum(dx) /\ Len(dx) < Len(dy) THEN -1
            ELSE IF isNum(dx) /\ Len(dx) > Len(dy) THEN 1
            ELSE IF StrLess(dx, dy) THEN -1 ELSE 1

comparePrerelease(x, y) ==
    IF x = y THEN 0
    ELSE IF x = <<>> THEN 1
    ELSE IF y = <<>> THEN -1
    ELSE comparePrereleaseLoop(x, y)

\* semver.Compare: an invalid version is less than a valid one and equal to
\* another invalid one.
Compare(v, w) ==
    LET pv == parse(v)
        pw == parse(w)
    IN IF ~pv.ok /\ ~pw.ok THEN 0
       ELSE IF ~pv.ok THEN -1
       ELSE IF ~pw.ok THEN 1
       ELSE IF compareInt(pv.major, pw.major) # 0 THEN compareInt(pv.major, pw.major)
       ELSE IF compareInt(pv.minor, pw.minor) # 0 THEN compareInt(pv.minor, pw.minor)
       ELSE IF compareInt(pv.patch, pw.patch) # 0 THEN compareInt(pv.patch, pw.patch)
       ELSE comparePrerelease(pv.prerelease, pw.prerelease)

(* --------------------------- usage file loader ------------------------ *)

minUsageFileVersion == <<"0",".","1">>

maxUsageFileVersion == <<"0",".","1">>

checkVersion_NoPrefix(v) ==
    /\ Compare(v, <<"v">> \o minUsageFileVersion) >= 0
    /\ Compare(v, <<"v">> \o maxUsageFileVersion) <= 0

checkVersion(v) ==
    LET n == IF ~HasPrefix(v, <<"v">>) THEN <<"v">> \o v ELSE v IN
    /\ Compare(n, <<"v">> \o minUsageFileVersion) >= 0
    /\ Compare(n, <<"v">> \o maxUsageFileVersion) <= 0

\* errors.Wrap / errors.Wrapf: the message in front of the cause's chain.
Wrap(err, message) == Ptr(<<message>> \o Deref(err))

NewError(message) == Ptr(<<message>>)

\* ioutil.ReadFile against the one usage file on disk.
ReadFile(path) ==
    IF path # "" /\ fs.readable
    THEN [out |-> fs, err |-> Nil]
    ELSE [out |-> Nil, err |-> NewError(<<"open ", path, ": unreadable">>)]

\* yaml.Unmarshal into a UsageFile: absent keys leave the zero value.
Unmarshal(y) ==
    IF ~y.wellFormed
    THEN [usageFile |-> [Version |-> <<>>, ResourceUsage |-> <<>>],
          err |-> NewError(<<"yaml: malformed document">>)]
    ELSE [usageFile |-> [Version       |-> IF IsNil(y.version) THEN <<>> ELSE Deref(y.version),
                         ResourceUsage |-> IF IsNil(y.resource_usage) THEN <<>>
                                           ELSE Deref(y.resource_usage)],
          err |-> Nil]

\* schema.NewUsageMap: one UsageData per resource address.
NewUsageMap(m) ==
    [addr \in DOMAIN m |-> Ptr([Address |-> addr, Attributes |-> m[addr]])]

\* The message of line 54; " <= x <= " stands for the source's U+2264 signs.
VersionError ==
    NewError(<<"Invalid usage file version. Supported versions are ",
               minUsageFileVersion, " <= x <= ", maxUsageFileVersion>>)

parseYAML_VersionNotEnforced(y) ==
    LET u == Unmarshal(y) IN
    IF ~IsNil(u.err)
    THEN [usageData |-> <<>>, err |-> Wrap(u.err, <<"Error parsing usage YAML">>),
          steps |-> <<"Unmarshal">>]
    ELSE IF ~checkVersion(u.usageFile.Version)
    THEN [usageData |-> NewUsageMap(u.usageFile.ResourceUsage), err |-> VersionError,
          steps |-> <<"Unmarshal", "checkVersion">>]
    ELSE [usageData |-> NewUsageMap(u.usageFile.ResourceUsage), err |-> Nil,
          steps |-> <<"Unmarshal", "checkVersion", "NewUsageMap">>]

parseYAML(y) ==
    LET u == Unmarshal(y) IN
    IF ~IsNil(u.err)
    THEN [usageData |-> <<>>, err |-> Wrap(u.err, <<"Error parsing usage YAML">>),
          steps |-> <<"Unmarshal">>]
    ELSE IF ~checkVersion(u.usageFile.Version)
    THEN [usageData |-> <<>>, err |-> VersionError,
          steps |-> <<"Unmarshal", "checkVersion">>]
    ELSE [usageData |-> NewUsageMap(u.usageFile.ResourceUsage), err |-> Nil,
          steps |-> <<"Unmarshal", "checkVersion", "NewUsageMap">>]

LoadFromFile_NoEmptyPathReturn(path) ==
    LET f == ReadFile(path) IN
    IF ~IsNil(f.err)
    THEN [usageData |-> <<>>, err |-> Wrap(f.err, <<"Error reading usage file">>),
          steps |-> <<"ReadFile">>]
    ELSE LET p == parseYAML(f.out) IN
         IF ~IsNil(p.err)
         THEN [usageData |-> p.usageData, err |-> Wrap(p.err, <<"Error parsing usage file">>),
               steps |-> <<"ReadFile">> \o p.steps]
         ELSE [usageData |-> p.usageData, err |-> Nil, steps |-> <<"ReadFile">> \o p.steps]

\* LoadFromFile as a function of its argument and the file on disk: the map
\* and error it returns, and the steps it went through.
LoadFromFile(path) ==
    IF path = ""
    THEN [usageData |-> <<>>, err |-> Nil, steps |-> <<>>]
    ELSE LET f == ReadFile(path) IN
         IF ~IsNil(f.err)
         THEN [usageData |-> <<>>, err |-> Wrap(f.err, <<"Error reading usage file">>),
               steps |-> <<"ReadFile">>]
         ELSE LET p == parseYAML(f.out) IN
              IF ~IsNil(p.err)
              THEN [usageData |-> p.usageData,
                    err |-> Wrap(p.err, <<"Error parsing usage file">>),
                    steps |-> <<"ReadFile">> \o p.steps]
              ELSE [usageData |-> p.usageData, err |-> Nil,
                    steps |-> <<"ReadFile">> \o p.steps]

(* ------------------- the StorageQueue state machine ------------------- *)

RECURSIVE Casings(_)
\* Every spelling of s that differs from it only in the case of its letters.
Casings(s) ==
    IF s = <<>> THEN { <<>> }
    ELSE { <<c>> \o t : c \in CaseForms(s[1]), t \in Casings(Tail(s)) }

SupportedTypes == {LRS, ZRS, GRS, RAGRS, GZRS, RAGZRS}

\* Replication types no casing of which is supported.
UnsupportedInputs ==
    { <<>>,
      <<"X","Y","Z">>,
      <<"x","y","z">>,
      <<"L","R","S"," ">>,
      <<"R","A","G","R","S">>,
      <<"r","a","_","g","z","r","s">>,
      <<"S","t","a","n","d","a","r","d","_","L","R","S">>,
      <<"P","r","e","m","i","u","m">>,
      <<"P","r","e","m","U+0131","u","m">>,
      <<"L","R","U+00E9">> }

ReplicationInputs == UNION { Casings(s) : s \in SupportedTypes } \cup UnsupportedInputs

Regions == {"eastus", "westeurope"}

Addresses == {"azurerm_storage_queue.example"}

\* Usage data handed to PopulateUsage: nil, an empty attribute map, a map of
\* keys the resource does not declare.
UsageInputs ==
    { Nil,
      Ptr([Address |-> "azurerm_storage_queue.example", Attributes |-> <<>>]),
      Ptr([Address |-> "azurerm_storage_queue.example",
           Attributes |-> [monthly_storage_gb |-> <<"1","0">>]]),
      Ptr([Address |-> "azurerm_storage_queue.example",
           Attributes |-> [account_replication_type |-> <<"X","Y","Z">>,
                           monthly_class_1_operations |-> <<"5">>]]) }

NoFile == [readable |-> FALSE, wellFormed |-> FALSE, version |-> Nil, resource_usage |-> Nil]

NotLoaded == [usageData |-> <<>>, err |-> Nil, steps |-> <<>>]

InitQueue ==
    /\ r \in [ Address : Addresses, Region : Regions,
               AccountReplicationType : ReplicationInputs ]
    /\ calls = <<>>
    /\ returned = <<>>
    /\ log = <<>>
    /\ fs = NoFile
    /\ usageFile = ""
    /\ loaded = NotLoaded
    /\ loads = 0

CallPopulateUsage(u) ==
    /\ Len(calls) < MaxCalls
    /\ r' = PopulateUsage(r, u)
    /\ calls' = Append(calls, "PopulateUsage")
    /\ UNCHANGED <<returned, log>>
    /\ UNCHANGED usageVars

CallBuildResource ==
    /\ Len(calls) < MaxCalls
    /\ returned' = Append(returned, BuildResource(r).resource)
    /\ log' = log \o BuildResource(r).warnings
    /\ calls' = Append(calls, "BuildResource")
    /\ UNCHANGED r
    /\ UNCHANGED usageVars

NextQueue ==
    \/ \E u \in UsageInputs : CallPopulateUsage(u)
    \/ CallBuildResource

SpecQueue == InitQueue /\ [][NextQueue]_vars

(* ------------------- the per-resource pipeline ------------------------ *)
(* The stage that drives one resource: it projects the usage onto the      *)
(* instance once and then passes the instance once through BuildResource;  *)
(* afterwards the instance is only read.                                   *)

UsagePopulated == \E i \in DOMAIN calls : calls[i] = "PopulateUsage"

CostModelInvoked == \E i \in DOMAIN calls : calls[i] = "BuildResource"

MayPopulate_NotOnce == ~CostModelInvoked

\* Usage is projected on an instance that has been neither populated nor built.
MayPopulate == ~UsagePopulated /\ ~CostModelInvoked

\* The cost model is invoked once, on the populated instance.
MayBuild == UsagePopulated /\ ~CostModelInvoked

PipelinePopulate(u) == MayPopulate /\ CallPopulateUsage(u)

PipelineBuild == MayBuild /\ CallBuildResource

NextPipeline ==
    \/ \E u \in UsageInputs : PipelinePopulate(u)
    \/ PipelineBuild

SpecPipeline == InitQueue /\ [][NextPipeline]_vars

(* -------------------- the usage loader state machine ------------------ *)

VersionAlphabet == {"v", "0", "1", "2", ".", "-"}

\* Version strings longer than MaxVersionLen that the loader may meet.
LongVersions ==
    { <<"v","0",".","1">>,
      <<"V","0",".","1">>,
      <<"v","0",".","2">>,
      <<"v","0",".","0">>,
      <<"0",".","1",".","0">>,
      <<"v","0",".","1",".","0">>,
      <<"0",".","1",".","1">>,
      <<"0",".","0",".","9">>,
      <<"0",".","1","0">>,
      <<"0",".","0","1">>,
      <<"0",".","1",".","0","-","r","c",".","1">>,
      <<"v","0",".","1",".","0","-","0","1">>,
      <<"0",".","1",".","0","+","b","1">>,
      <<"0",".","1","+","b","1">>,
      <<"v","v","0",".","1">>,
      <<" ","0",".","1">> }

VersionInputs ==
    UNION { [1..n -> VersionAlphabet] : n \in 0..MaxVersionLen } \cup LongVersions

UsagePath == "infracost-usage.yml"

PathInputs == {"", UsagePath}

QueueUsage == [monthly_storage_gb |-> <<"1","0">>]

BucketUsage == [standard |-> [storage_gb |-> <<"5">>], monthly_requests |-> <<"7">>]

\* The resource_usage key of the document: absent, empty, or populated.
ResourceUsageInputs ==
    { Nil,
      Ptr(<<>>),
      Ptr([a \in {"azurerm_storage_queue.example"} |-> QueueUsage]),
      Ptr([a \in {"azurerm_storage_queue.example", "aws_s3_bucket.b"} |->
              IF a = "aws_s3_bucket.b" THEN BucketUsage ELSE QueueUsage]) }

\* What may be on disk at UsagePath: nothing readable, bytes that are not
\* YAML for a UsageFile, or a document with or without a version.
FileInputs ==
    { NoFile }
    \cup { [readable |-> TRUE, wellFormed |-> FALSE, version |-> Nil, resource_usage |-> ru]
             : ru \in ResourceUsageInputs }
    \cup { [readable |-> TRUE, wellFormed |-> TRUE, version |-> v, resource_usage |-> ru]
             : v \in {Nil} \cup {Ptr(x) : x \in VersionInputs}, ru \in ResourceUsageInputs }

InitUsage ==
    /\ r = [Address |-> "azurerm_storage_queue.example", Region |-> "eastus",
            AccountReplicationType |-> LRS]
    /\ calls = <<>>
    /\ returned = <<>>
    /\ log = <<>>
    /\ fs \in FileInputs
    /\ usageFile = ""
    /\ loaded = NotLoaded
    /\ loads = 0

CallLoadFromFile(path) ==
    /\ loads < MaxLoads
    /\ usageFile' = path
    /\ loaded' = LoadFromFile(path)
    /\ loads' = loads + 1
    /\ UNCHANGED fs
    /\ UNCHANGED queueVars

NextUsage == \E path \in PathInputs : CallLoadFromFile(path)

SpecUsage == InitUsage /\ [][NextUsage]_vars

(* ------------------------------ properties ---------------------------- *)

\* The replication type of the instance, upper-cased.
UpperType == ToUpper(r.AccountReplicationType)

Supported == UpperType \in SupportedTypes

\* The BuildResource calls that returned a resource.
Built == { i \in DOMAIN returned : ~IsNil(returned[i]) }

Components(i) == Deref(returned[i]).CostComponents

Names(cs) == [k \in DOMAIN cs |-> cs[k].Name]

Count(cs, name) == Cardinality({ k \in DOMAIN cs : cs[k].Name = name })

Filters(c) == c.ProductFilter.AttributeFilters

\* C1: BuildResource returns a resource with a non-empty component list
\* exactly when the upper-cased replication type is one of the six supported
\* ones; otherwise it returns nil and logs exactly one warning per call.
C1_SupportedIffResource ==
    /\ \A i \in DOMAIN returned :
          (~IsNil(returned[i]) /\ Components(i) # <<>>) <=> Supported
    /\ Supported => log = <<>>
    /\ ~Supported =>
          /\ \A i \in DOMAIN returned : IsNil(returned[i])
          /\ Len(log) = Len(returned)
          /\ \A k \in DOMAIN log : log[k].level = "warning"

C1_Witness ==
    /\ r.AccountReplicationType = <<>>
    /\ Len(returned) = 2
    /\ IsNil(returned[2])
    /\ Len(log) = 2

\* C2: for a supported type in any casing the list holds a Class 1
\* operations component exactly when the upper-cased type is neither GZRS
\* nor RA-GZRS, and always exactly one Class 2 operations component.
C2_OperationClasses ==
    \A i \in Built :
        /\ Count(Components(i), "Class 1 operations") =
              (IF UpperType \in {GZRS, RAGZRS} THEN 0 ELSE 1)
        /\ Count(Components(i), "Class 2 operations") = 1

C2_Witness ==
    /\ r.AccountReplicationType = <<"g","z","r","s">>
    /\ Built # {}
    /\ \A i \in Built : Count(Components(i), "Class 1 operations") = 0
    /\ \A i \in Built : Count(Components(i), "Class 2 operations") = 1

\* C3: for a supported type in any casing the list holds no Geo-replication
\* data transfer component when the upper-cased type is LRS or ZRS and
\* exactly one otherwise; an excluded group adds no component of any name.
C3_GeoReplication ==
    \A i \in Built :
        /\ Count(Components(i), "Geo-replication data transfer") =
              (IF UpperType \in {LRS, ZRS} THEN 0 ELSE 1)
        /\ Len(Components(i)) =
              Count(Components(i), "Capacity")
              + Count(Components(i), "Class 1 operations")
              + Count(Components(i), "Class 2 operations")
              + Count(Components(i), "Geo-replication data transfer")
        /\ UpperType \in {LRS, ZRS} => Len(Components(i)) = 3

C3_Witness ==
    /\ r.AccountReplicationType = <<"R","a","-","g","R","s">>
    /\ Built # {}
    /\ \A i \in Built : Count(Components(i), "Geo-replication data transfer") = 1

\* C4: components come in a fixed order: Capacity first, Class 1 operations
\* (when present) before Class 2 operations, Geo-replication data transfer
\* (when present) last; LRS and RA-GZRS give the two stated sequences, and
\* building the same instance again gives the same result.
C4_FixedOrder ==
    /\ \A i \in Built :
          LET n == Names(Components(i)) IN
          /\ n[1] = "Capacity"
          /\ \A a, b \in DOMAIN n :
                n[a] = "Class 1 operations" /\ n[b] = "Class 2 operations" => a < b
          /\ \A a \in DOMAIN n :
                n[a] = "Geo-replication data transfer" => a = Len(n)
          /\ \A a \in DOMAIN n : n[a] = "Capacity" => a = 1
          /\ UpperType = LRS =>
                n = <<"Capacity", "Class 1 operations", "Class 2 operations">>
          /\ UpperType = RAGZRS =>
                n = <<"Capacity", "Class 2 operations", "Geo-replication data transfer">>
    /\ \A i, j \in DOMAIN returned : returned[i] = returned[j]

C4_Witness ==
    /\ r.AccountReplicationType = RAGZRS
    /\ Len(returned) = 2
    /\ Built = {1, 2}
    /\ Names(Components(2)) =
          <<"Capacity", "Class 2 operations", "Geo-replication data transfer">>

\* C5: whatever casing the caller supplies, the skuName of the Capacity,
\* Class 1 and Class 2 components is "Standard " followed by the supported
\* type in upper case, and the meterName of Capacity is that upper-case type
\* followed by " Data Stored".
C5_UpperCasedFilterText ==
    \A i \in Built :
        \E token \in SupportedTypes :
            /\ r.AccountReplicationType \in Casings(token)
            /\ \A k \in DOMAIN Components(i) :
                  LET c == Components(i)[k] IN
                  /\ c.Name \in {"Capacity", "Class 1 operations", "Class 2 operations"} =>
                        /\ Filters(c)[2].Key = "skuName"
                        /\ Filters(c)[2].Value = Ptr(StandardSp \o token)
                  /\ c.Name = "Capacity" =>
                        /\ Filters(c)[3].Key = "meterName"
                        /\ Filters(c)[3].Value = Ptr(token \o SpDataStored)

C5_Witness ==
    /\ r.AccountReplicationType = <<"R","a","-","G","z","r","s">>
    /\ Built # {}
    /\ \A i \in Built :
          Filters(Components(i)[1])[2].Value = Ptr(StandardSp \o RAGZRS)

\* C10: every cost component BuildResource produces carries exactly three
\* attribute filters keyed productName, skuName, meterName in that order,
\* each with exactly one of Value and ValueRegex set.
C10_FilterShape ==
    \A i \in Built :
        \A k \in DOMAIN Components(i) :
            LET fl == Filters(Components(i)[k]) IN
            /\ Len(fl) = 3
            /\ fl[1].Key = "productName"
            /\ fl[2].Key = "skuName"
            /\ fl[3].Key = "meterName"
            /\ \A a \in DOMAIN fl : IsNil(fl[a].Value) # IsNil(fl[a].ValueRegex)

C10_Witness ==
    /\ r.AccountReplicationType = <<"r","a","-","g","r","s">>
    /\ Built # {}
    /\ \A i \in Built : Len(Components(i)) = 4

DeclaredVersion == IF IsNil(fs.version) THEN <<>> ELSE Deref(fs.version)

\* A LoadFromFile call reached the version check of the document on disk.
VersionChecked == loads > 0 /\ usageFile # "" /\ fs.readable /\ fs.wellFormed

\* v without one leading "v" and without build metadata.
BareVersion(v) ==
    LET w == IF v # <<>> /\ v[1] = "v" THEN Tail(v) ELSE v
    IN SubSeq(w, 1, IndexOf(w, "+") - 1)

RangeError ==
    Ptr(<< <<"Error parsing usage file">>,
           <<"Invalid usage file version. Supported versions are ",
             <<"0",".","1">>, " <= x <= ", <<"0",".","1">> >> >>)

\* C6: the version gate accepts "0.1" and "v0.1", accepts nothing that does
\* not denote version 0.1 once a leading "v" is allowed for, and rejects
\* "0.2", "0.0" and the empty or missing version with an error naming 0.1 as
\* the lower and the upper bound.
C6_VersionGate ==
    VersionChecked =>
        /\ DeclaredVersion \in { <<"0",".","1">>, <<"v","0",".","1">> } => IsNil(loaded.err)
        /\ IsNil(loaded.err) =>
              BareVersion(DeclaredVersion) \in { <<"0",".","1">>, <<"0",".","1",".","0">> }
        /\ DeclaredVersion \in { <<"0",".","2">>, <<"0",".","0">>, <<>> } => ~IsNil(loaded.err)
        /\ ~IsNil(loaded.err) => loaded.err = RangeError

C6_Witness ==
    /\ VersionChecked
    /\ fs.version = Ptr(<<"0",".","1">>)
    /\ IsNil(loaded.err)
    /\ loaded.steps = <<"ReadFile", "Unmarshal", "checkVersion", "NewUsageMap">>

\* C7: for a non-empty path LoadFromFile returns either no error and the
\* whole of resource_usage, one UsageData per address, or an error and an
\* empty map; an unreadable file, a malformed document and an out-of-range
\* version each give the error.
C7_AllOrNothing ==
    loads > 0 /\ usageFile # "" =>
        LET m == IF IsNil(fs.resource_usage) THEN <<>> ELSE Deref(fs.resource_usage) IN
        /\ \/ /\ IsNil(loaded.err)
              /\ DOMAIN loaded.usageData = DOMAIN m
              /\ \A a \in DOMAIN m :
                    /\ Deref(loaded.usageData[a]).Address = a
                    /\ Deref(loaded.usageData[a]).Attributes = m[a]
           \/ /\ ~IsNil(loaded.err)
              /\ DOMAIN loaded.usageData = {}
        /\ ~fs.readable => ~IsNil(loaded.err)
        /\ fs.readable /\ ~fs.wellFormed => ~IsNil(loaded.err)
        /\ fs.readable /\ fs.wellFormed /\ ~checkVersion(DeclaredVersion) => ~IsNil(loaded.err)
        /\ fs.readable /\ fs.wellFormed /\ checkVersion(DeclaredVersion) => IsNil(loaded.err)

C7_Witness ==
    /\ loads > 0
    /\ usageFile = UsagePath
    /\ fs.readable /\ fs.wellFormed
    /\ fs.version = Ptr(<<"0",".","2">>)
    /\ ~IsNil(fs.resource_usage)
    /\ Cardinality(DOMAIN Deref(fs.resource_usage)) = 2
    /\ ~IsNil(loaded.err)
    /\ DOMAIN loaded.usageData = {}

\* C8: with an empty path LoadFromFile returns an empty map and no error
\* without reading a file, parsing YAML or checking a version.
C8_EmptyPath ==
    loads > 0 /\ usageFile = "" =>
        /\ DOMAIN loaded.usageData = {}
        /\ IsNil(loaded.err)
        /\ loaded.steps = <<>>

C8_Witness ==
    /\ loads > 0
    /\ usageFile = ""
    /\ fs.readable /\ fs.wellFormed
    /\ IsNil(fs.version)
    /\ IsNil(loaded.err)
    /\ loaded.steps = <<>>

====
